---- MODULE Spec2Model ----
(***************************************************************************)
(* Doctor service: task lifecycle and conversion-policy core.              *)
(*                                                                         *)
(* Two specifications over one set of variables:                           *)
(*   Spec     - one Task after construction, driven by its mutators        *)
(*              (set_processing, set_completed, set_failed) and by the     *)
(*              scheduler's retry policy;                                  *)
(*   SpecPure - the pure policy functions and validators, each applied to  *)
(*              inputs drawn from bounded sets.                            *)
(*                                                                         *)
(* Python strings that the code inspects (lower(), dictionary lookup) are  *)
(* sequences of one-character strings.  Optional[T] is <<>> for None and   *)
(* <<x>> for a value x.                                                    *)
(***************************************************************************)
EXTENDS Integers, Sequences, FiniteSets, TLC

VARIABLES
    task,   \* the Task entity (a record of its fields)
    now,    \* the clock datetime.utcnow() reads
    call,   \* the last operation applied, with its arguments
    ret,    \* the value the last pure function returned
    requeues \* how many times the retry policy has re-queued the task

vars == <<task, now, call, ret, requeues>>

----------------------------------------------------------------------------
(* Bounds *)

\* latest clock value a mutator can read
MaxTime == 2

\* longest generated input string for normalize
MaxStrLen == 3

\* longest generated file name (longer names are built around the length limit)
MaxNameLen == 2

\* longest generated path
MaxPathLen == 5

\* longest generated text
MaxTextLen == 4

\* most digits of a generated margin
MaxDigits == 2

\* most bytes after the head of a generated file content
MaxBytesLen == 2

\* largest generated TaskStats counter
MaxCount == 3

----------------------------------------------------------------------------
(* Optional values *)

None == <<>>

Some(x) == <<x>>

IsSet(o) == o # None

----------------------------------------------------------------------------
(* Strings as character sequences *)

UpperLetters ==
    <<"A","B","C","D","E","F","G","H","I","J","K","L","M",
      "N","O","P","Q","R","S","T","U","V","W","X","Y","Z">>

LowerLetters ==
    <<"a","b","c","d","e","f","g","h","i","j","k","l","m",
      "n","o","p","q","r","s","t","u","v","w","x","y","z">>

LowerChar(c) ==
    IF \E i \in DOMAIN UpperLetters : UpperLetters[i] = c
    THEN LowerLetters[CHOOSE i \in DOMAIN UpperLetters : UpperLetters[i] = c]
    ELSE c

\* str.lower()
Lower(s) == [i \in DOMAIN s |-> LowerChar(s[i])]

----------------------------------------------------------------------------
(* enums.py: DocumentFormat *)

DocumentFormat == {"MARKDOWN", "MD", "PDF", "HTML", "HTM"}

\* member.value
FormatValue(f) ==
    CASE f = "MARKDOWN" -> <<"m","a","r","k","d","o","w","n">>
      [] f = "MD"       -> <<"m","d">>
      [] f = "PDF"      -> <<"p","d","f">>
      [] f = "HTML"     -> <<"h","t","m","l">>
      [] f = "HTM"      -> <<"h","t","m">>

\* the format_map dictionary of normalize, as its set of (key, value) pairs
format_map ==
    { <<FormatValue("MARKDOWN"), "MARKDOWN">>,
      <<FormatValue("MD"),       "MARKDOWN">>,
      <<FormatValue("PDF"),      "PDF">>,
      <<FormatValue("HTML"),     "HTML">>,
      <<FormatValue("HTM"),      "HTML">> }

\* dict.get(key, default)
DictGet(d, key, default) ==
    IF \E kv \in d : kv[1] = key
    THEN (CHOOSE kv \in d : kv[1] = key)[2]
    ELSE default

\* a normalize that forgets to lower-case its input
normalize_no_lower(format_str) == DictGet(format_map, format_str, "MARKDOWN")

normalize(format_str) == DictGet(format_map, Lower(format_str), "MARKDOWN")

----------------------------------------------------------------------------
(* enums.py: TaskStatus *)

TaskStatus ==
    {"created", "queued", "waiting", "processing",
     "success", "failed", "cancelled", "expired"}

\* an is_final that leaves out Expired
is_final_no_expired(s) == s \in {"success", "failed", "cancelled"}

is_final(s) == s \in {"success", "failed", "cancelled", "expired"}

is_active(s) == s = "processing"

can_cancel(s) == s \in {"created", "queued", "waiting", "processing"}

----------------------------------------------------------------------------
(* enums.py: Constants *)

MAX_FILE_SIZE == 524288000

MAX_TEXT_SIZE == 10485760

MAX_URL_SIZE == 104857600

\* CONVERSION_MATRIX, as its set of (key, list) pairs
CONVERSION_MATRIX ==
    { <<"MARKDOWN", <<"PDF", "HTML">> >>,
      <<"PDF",      <<"MARKDOWN", "HTML">> >>,
      <<"HTML",     <<"MARKDOWN", "PDF">> >> }

InList(x, l) == \E i \in DOMAIN l : l[i] = x

\* a can_convert that looks the raw members up, without normalizing them
can_convert_raw(source, target) ==
    IF source = target
    THEN FALSE
    ELSE InList(target, DictGet(CONVERSION_MATRIX, source, <<>>))

can_convert(source, target) ==
    LET source_norm == normalize(FormatValue(source))
        target_norm == normalize(FormatValue(target))
    IN  IF source_norm = target_norm
        THEN FALSE
        ELSE InList(target_norm, DictGet(CONVERSION_MATRIX, source_norm, <<>>))

----------------------------------------------------------------------------
(* enums.py: ErrorCode *)

ErrorCode ==
    {"file_too_large", "file_not_found", "invalid_file_format", "file_corrupted",
     "task_not_found", "task_expired", "task_limit_exceeded", "task_timeout",
     "conversion_failed", "unsupported_conversion", "invalid_options",
     "storage_error", "memory_limit", "internal_error", "service_unavailable"}

----------------------------------------------------------------------------
(* models.py: ConversionOptions and Task *)

\* ConversionOptions(): every field at its default
DefaultOptions ==
    [theme |-> "default", code_style |-> "default", page_size |-> "A4",
     margin |-> "20mm", include_toc |-> FALSE, include_page_numbers |-> TRUE,
     embed_images |-> TRUE, process_math |-> TRUE, process_mermaid |-> TRUE]

\* pydantic's validation of a DocumentFormat field: the input must be the
\* value of a member (exact match), and the member is what the validators see
IsFormatValue(s) == \E f \in DocumentFormat : FormatValue(f) = s

FormatOfValue(s) == CHOOSE f \in DocumentFormat : FormatValue(f) = s

\* Task.normalize_formats: a DocumentFormat member is a str, so it is normalized
normalize_formats(v) == normalize(FormatValue(v))

\* a Task.validate_conversion that accepts every target
Task_validate_conversion_skip(v, source) == TRUE

\* Task.validate_conversion: TRUE when the target passes; source is None when
\* source_format did not validate (info.data has no entry for it)
Task_validate_conversion(v, source) ==
    ~ (IsSet(source) /\ ~ can_convert(source[1], v))

\* Field(default=0, ge=0, le=3)
RetryCountValid(rc) == rc >= 0 /\ rc <= 3

\* Task(input_file_id=..., source_format=src, target_format=tgt, status=st,
\*      retry_count=rc) at time t: [ok |-> TRUE, task |-> the entity] or
\* [ok |-> FALSE, error |-> "ValidationError"]
ConstructTask(src, tgt, st, rc, t) ==
    LET src_ok  == IsFormatValue(src)
        source  == IF src_ok THEN Some(normalize_formats(FormatOfValue(src))) ELSE None
        tgt_ok  == IsFormatValue(tgt)
        target  == IF tgt_ok THEN Some(normalize_formats(FormatOfValue(tgt))) ELSE None
        conv_ok == tgt_ok /\ Task_validate_conversion(target[1], source)
    IN  IF src_ok /\ conv_ok /\ RetryCountValid(rc)
        THEN [ok |-> TRUE,
              task |-> [id |-> "task-1",
                        status |-> st,
                        priority |-> "NORMAL",
                        source |-> "file",
                        input_file_id |-> "file-in",
                        output_file_id |-> None,
                        cache_key |-> None,
                        source_format |-> source[1],
                        target_format |-> target[1],
                        options |-> DefaultOptions,
                        progress |-> 0,
                        message |-> <<"Task created">>,
                        error_code |-> None,
                        error_details |-> None,
                        created_at |-> t,
                        started_at |-> None,
                        completed_at |-> None,
                        processing_time |-> None,
                        memory_used |-> None,
                        retry_count |-> rc]]
        ELSE [ok |-> FALSE, error |-> "ValidationError"]

\* a can_retry whose cap is off by one
can_retry_off_by_one(t) == t.retry_count <= 3 /\ t.status = "failed"

\* a can_retry that forgets the status
can_retry_any_status(t) == t.retry_count < 3

\* Task.can_retry
can_retry(t) == t.retry_count < 3 /\ t.status = "failed"

\* Task.duration
duration(t) ==
    IF IsSet(t.started_at) /\ IsSet(t.completed_at)
    THEN Some(t.completed_at[1] - t.started_at[1])
    ELSE None

\* a set_processing that also starts progress over
set_processing_resets_progress(t, time) ==
    [t EXCEPT !.status = "processing",
              !.started_at = Some(time),
              !.progress = 0,
              !.message = <<"Processing conversion">>]

\* Task.set_processing, utcnow() returning time
set_processing(t, time) ==
    [t EXCEPT !.status = "processing",
              !.started_at = Some(time),
              !.message = <<"Processing conversion">>]

\* a set_completed that takes the elapsed time from created_at
set_completed_from_created(t, output_file_id, time) ==
    [t EXCEPT !.status = "success",
              !.output_file_id = Some(output_file_id),
              !.completed_at = Some(time),
              !.progress = 100,
              !.message = <<"Conversion completed successfully">>,
              !.processing_time = Some(time - t.created_at)]

\* a set_completed that leaves progress as it was
set_completed_keeps_progress(t, output_file_id, time) ==
    [t EXCEPT !.status = "success",
              !.output_file_id = Some(output_file_id),
              !.completed_at = Some(time),
              !.message = <<"Conversion completed successfully">>,
              !.processing_time =
                  IF IsSet(t.started_at) THEN Some(time - t.started_at[1]) ELSE @]

\* Task.set_completed, utcnow() returning time
set_completed(t, output_file_id, time) ==
    [t EXCEPT !.status = "success",
              !.output_file_id = Some(output_file_id),
              !.completed_at = Some(time),
              !.progress = 100,
              !.message = <<"Conversion completed successfully">>,
              !.processing_time =
                  IF IsSet(t.started_at) THEN Some(time - t.started_at[1]) ELSE @]

\* a set_failed that drops the details
set_failed_no_details(t, error_code, error_details, time) ==
    [t EXCEPT !.status = "failed",
              !.error_code = Some(error_code),
              !.completed_at = Some(time),
              !.message = <<"Conversion failed: ", error_details>>]

\* a set_failed that also counts the failure as a retry
set_failed_counts_retry(t, error_code, error_details, time) ==
    [t EXCEPT !.status = "failed",
              !.error_code = Some(error_code),
              !.error_details = Some(error_details),
              !.completed_at = Some(time),
              !.retry_count = IF @ < 3 THEN @ + 1 ELSE @,
              !.message = <<"Conversion failed: ", error_details>>]

\* Task.set_failed, utcnow() returning time
set_failed(t, error_code, error_details, time) ==
    [t EXCEPT !.status = "failed",
              !.error_code = Some(error_code),
              !.error_details = Some(error_details),
              !.completed_at = Some(time),
              !.message = <<"Conversion failed: ", error_details>>]

----------------------------------------------------------------------------
(* Specification Spec: one Task and the calls made on it *)

\* inputs of the mutators
OutputIds == {"file-out-1", "file-out-2"}

FailCodes == {"task_timeout", "conversion_failed"}

FailDetails == {"timed out", "converter crashed"}

NoCall == [fn |-> "none"]

\* every Task the constructor accepts for the six convertible pairs, any status and
\* any retry_count, every other field at its default, built at time 0
Init ==
    /\ \E src \in DocumentFormat, tgt \in DocumentFormat,
          st \in TaskStatus, rc \in 0..3 :
          LET c == ConstructTask(FormatValue(src), FormatValue(tgt), st, rc, 0)
          IN  c.ok /\ task = c.task
    /\ now = 0
    /\ call = NoCall
    /\ ret = None
    /\ requeues = 0

SetProcessing ==
    \E time \in now..MaxTime :
        /\ task' = set_processing(task, time)
        /\ now' = time
        /\ call' = [fn |-> "set_processing"]
        /\ UNCHANGED <<ret, requeues>>

SetCompleted ==
    \E time \in now..MaxTime, output_file_id \in OutputIds :
        /\ task' = set_completed(task, output_file_id, time)
        /\ now' = time
        /\ call' = [fn |-> "set_completed", output_file_id |-> output_file_id]
        /\ UNCHANGED <<ret, requeues>>

SetFailed ==
    \E time \in now..MaxTime, error_code \in FailCodes, error_details \in FailDetails :
        /\ task' = set_failed(task, error_code, error_details, time)
        /\ now' = time
        /\ call' = [fn |-> "set_failed", error_code |-> error_code,
                    error_details |-> error_details]
        /\ UNCHANGED <<ret, requeues>>

\* the scheduler's retry policy: a task is re-queued only while can_retry holds,
\* and each re-queue adds one to retry_count
Retry ==
    /\ can_retry(task)
    /\ task' = [task EXCEPT !.retry_count = @ + 1, !.status = "queued"]
    /\ call' = [fn |-> "retry"]
    /\ requeues' = requeues + 1
    /\ UNCHANGED <<now, ret>>

Next == SetProcessing \/ SetCompleted \/ SetFailed \/ Retry

Spec == Init /\ [][Next]_vars

----------------------------------------------------------------------------
(* Specification SpecNew: the calls made on a newly created Task *)

\* Task(input_file_id=..., source_format=..., target_format=...): status
\* Created, retry_count 0, no error, no output, no timestamps but created_at
InitNew ==
    /\ \E src \in DocumentFormat, tgt \in DocumentFormat :
          LET c == ConstructTask(FormatValue(src), FormatValue(tgt), "created", 0, 0)
          IN  c.ok /\ task = c.task
    /\ now = 0
    /\ call = NoCall
    /\ ret = None
    /\ requeues = 0

SpecNew == InitNew /\ [][Next]_vars

----------------------------------------------------------------------------
(* validators.py *)

\* the max_sizes dictionary of validate_file_size
max_sizes ==
    { <<"file", MAX_FILE_SIZE>>, <<"text", MAX_TEXT_SIZE>>, <<"url", MAX_URL_SIZE>> }

\* FileValidator.validate_file_size: the pair (is_valid, error_message)
validate_file_size(size, source) ==
    IF size <= 0
    THEN <<FALSE, Some(<<"File size must be positive">>)>>
    ELSE LET max_size == DictGet(max_sizes, source, MAX_FILE_SIZE)
         IN  IF size > max_size
             THEN <<FALSE, Some(<<"Size ", size, " bytes exceeds maximum of ",
                                  max_size, " bytes">>)>>
             ELSE <<TRUE, None>>

\* ConversionValidator.validate_conversion on two DocumentFormat members
ConversionValidator_validate_conversion(source_format, target_format) ==
    LET source_norm == normalize(FormatValue(source_format))
        target_norm == normalize(FormatValue(target_format))
    IN  IF source_norm = target_norm
        THEN <<FALSE, Some(<<"Source and target formats are the same">>)>>
        ELSE IF ~ can_convert(source_norm, target_norm)
             THEN <<FALSE, Some(<<"Conversion from ", FormatValue(source_norm), " to ",
                                  FormatValue(target_norm), " is not supported">>)>>
             ELSE <<TRUE, None>>

----------------------------------------------------------------------------
(* Python str operations on character sequences *)

\* the characters the validators look for
NUL == "\\0"

BACKSLASH == "\\"

CR == "\r"

LF == "\n"

\* a letter outside ASCII (U+00E9), two bytes in UTF-8
EACUTE == "U+00E9"

\* c in s
HasChar(s, c) == \E i \in DOMAIN s : s[i] = c

\* sub in s, for a non-empty sub
HasSub(s, sub) ==
    \E i \in 1..(Len(s) - Len(sub) + 1) :
        \A j \in 1..Len(sub) : s[i + j - 1] = sub[j]

\* s.startswith(prefix)
StartsWith(s, prefix) ==
    /\ Len(s) >= Len(prefix)
    /\ \A j \in 1..Len(prefix) : s[j] = prefix[j]

\* a call that raises returns the 1-tuple of the exception's name; a validator
\* that returns gives the pair (is_valid, error_message)
Raised(exc) == <<exc>>

----------------------------------------------------------------------------
(* validators.py: FileValidator.validate_filename *)

MAX_FILENAME_LENGTH == 255

\* the character class of re.search(r'[<>:"|?*]', filename)
DangerousChars == {"<", ">", ":", "\"", "|", "?", "*"}

\* a length check that already refuses 255 characters
filename_too_long_off_by_one(filename) == Len(filename) >= MAX_FILENAME_LENGTH

filename_too_long(filename) == Len(filename) > MAX_FILENAME_LENGTH

validate_filename(filename) ==
    IF filename = <<>>
    THEN <<FALSE, Some(<<"Filename cannot be empty">>)>>
    ELSE IF \/ HasSub(filename, <<".", ".">>)
            \/ HasChar(filename, "/")
            \/ HasChar(filename, BACKSLASH)
    THEN <<FALSE, Some(<<"Filename contains path traversal characters">>)>>
    ELSE IF HasChar(filename, NUL)
    THEN <<FALSE, Some(<<"Filename contains null bytes">>)>>
    ELSE IF filename_too_long(filename)
    THEN <<FALSE, Some(<<"Filename too long (max 255 characters)">>)>>
    ELSE IF \E i \in DOMAIN filename : filename[i] \in DangerousChars
    THEN <<FALSE, Some(<<"Filename contains potentially dangerous characters">>)>>
    ELSE <<TRUE, None>>

----------------------------------------------------------------------------
(* pathlib.Path on a POSIX system, as sanitize_path and validate_file_path use it *)

\* s.split(sep): the pieces of s between the occurrences of the character sep
RECURSIVE SplitFrom(_, _, _, _)
SplitFrom(s, sep, i, cur) ==
    IF i > Len(s)
    THEN <<cur>>
    ELSE IF s[i] = sep
         THEN <<cur>> \o SplitFrom(s, sep, i + 1, <<>>)
         ELSE SplitFrom(s, sep, i + 1, Append(cur, s[i]))

Split(s, sep) == SplitFrom(s, sep, 1, <<>>)

\* sep.join(pieces)
RECURSIVE Join(_, _)
Join(pieces, sep) ==
    IF pieces = <<>>
    THEN <<>>
    ELSE IF Len(pieces) = 1
         THEN pieces[1]
         ELSE pieces[1] \o <<sep>> \o Join(Tail(pieces), sep)

\* s.replace(old, new) for single characters
ReplaceChar(s, old, new) == [i \in DOMAIN s |-> IF s[i] = old THEN new ELSE s[i]]

\* the components of Path(path) after its root: empty pieces and "." are dropped
PathComponents(path) ==
    SelectSeq(Split(path, "/"), LAMBDA c : c # <<>> /\ c # <<".">>)

\* Path(path).is_absolute()
PathIsAbsolute(path) == StartsWith(path, <<"/">>)

\* '..' in Path(path).parts
PathHasParentRef(path) == HasChar(PathComponents(path), <<".", ".">>)

\* Path(path).name
PathName(path) ==
    LET c == PathComponents(path)
    IN  IF c = <<>> THEN <<>> ELSE c[Len(c)]

\* str(Path(path)) of a relative path
PathStr(path) ==
    LET c == PathComponents(path)
    IN  IF c = <<>> THEN <<".">> ELSE Join(c, "/")

\* FileValidator.sanitize_path
sanitize_path(path) ==
    IF PathIsAbsolute(path) \/ PathHasParentRef(path)
    THEN PathName(path)
    ELSE ReplaceChar(PathStr(path), BACKSLASH, "/")

\* models.validate_file_path: TRUE when v is returned, FALSE when ValueError is raised
validate_file_path(v) == ~ PathIsAbsolute(v) /\ ~ PathHasParentRef(v)

----------------------------------------------------------------------------
(* validators.py: TextValidator.sanitize_text *)

\* s.replace(c, '') for a single character c
RemoveChar(s, c) == SelectSeq(s, LAMBDA x : x # c)

\* s.replace('\r\n', '\n'): the occurrences are replaced from left to right
RECURSIVE ReplaceCRLF(_)
ReplaceCRLF(s) ==
    IF s = <<>>
    THEN <<>>
    ELSE IF Len(s) >= 2 /\ s[1] = CR /\ s[2] = LF
         THEN <<LF>> \o ReplaceCRLF(SubSeq(s, 3, Len(s)))
         ELSE <<s[1]>> \o ReplaceCRLF(Tail(s))

\* a sanitize_text that replaces the lone CRs before the CRLF pairs
sanitize_text_cr_first(text) ==
    ReplaceCRLF(ReplaceChar(RemoveChar(text, NUL), CR, LF))

\* TextValidator.sanitize_text
sanitize_text(text) ==
    ReplaceChar(ReplaceCRLF(RemoveChar(text, NUL)), CR, LF)

----------------------------------------------------------------------------
(* validators.py: URLValidator *)
(* A URL is its length and what urlparse makes of it: None when urlparse   *)
(* raises ValueError, else the scheme and the hostname (None when absent). *)

MAX_URL_LENGTH == 2048

ALLOWED_SCHEMES == {"http", "https"}

BLOCKED_DOMAINS == {"localhost", "127.0.0.1", "0.0.0.0", "::1"}

\* ipaddress.ip_address(hostname): None when it raises ValueError, else the
\* is_private, is_reserved and is_loopback flags of the address
ip_address(hostname) ==
    LET flags(p, r, l) == Some([is_private |-> p, is_reserved |-> r, is_loopback |-> l])
    IN  CASE hostname = "127.0.0.1"   -> flags(TRUE, FALSE, TRUE)
          [] hostname = "127.0.0.2"   -> flags(TRUE, FALSE, TRUE)
          [] hostname = "0.0.0.0"     -> flags(TRUE, FALSE, FALSE)
          [] hostname = "::1"         -> flags(TRUE, TRUE, TRUE)
          [] hostname = "192.168.1.1" -> flags(TRUE, FALSE, FALSE)
          [] hostname = "10.0.0.1"    -> flags(TRUE, FALSE, FALSE)
          [] hostname = "fc00::1"     -> flags(TRUE, FALSE, FALSE)
          [] hostname = "240.0.0.1"   -> flags(TRUE, TRUE, FALSE)
          [] hostname = "224.0.0.1"   -> flags(FALSE, FALSE, FALSE)
          [] hostname = "8.8.8.8"     -> flags(FALSE, FALSE, FALSE)
          [] OTHER                    -> None

\* an _is_private_ip that only looks at is_loopback
is_private_ip_loopback_only(hostname) ==
    LET ip == ip_address(hostname)
    IN  IF ip = None THEN FALSE ELSE ip[1].is_loopback

\* URLValidator._is_private_ip
is_private_ip(hostname) ==
    LET ip == ip_address(hostname)
    IN  IF ip = None
        THEN FALSE
        ELSE ip[1].is_private \/ ip[1].is_reserved \/ ip[1].is_loopback

\* URLValidator.validate_url
validate_url(url) ==
    IF url.len = 0
    THEN <<FALSE, Some(<<"URL cannot be empty">>)>>
    ELSE IF url.len > MAX_URL_LENGTH
    THEN <<FALSE, Some(<<"URL too long (max 2048 characters)">>)>>
    ELSE IF url.parsed = None
    THEN <<FALSE, Some(<<"Invalid URL: ", "ValueError">>)>>
    ELSE LET parsed == url.parsed[1]
         IN  IF parsed.scheme \notin ALLOWED_SCHEMES
             THEN <<FALSE, Some(<<"URL scheme '", parsed.scheme,
                                  "' not allowed (use http/https)">>)>>
             ELSE IF IsSet(parsed.hostname) /\ parsed.hostname[1] \in BLOCKED_DOMAINS
             THEN <<FALSE, Some(<<"Cannot access localhost">>)>>
             ELSE IF IsSet(parsed.hostname) /\ is_private_ip(parsed.hostname[1])
             THEN <<FALSE, Some(<<"Cannot access private network addresses">>)>>
             ELSE <<TRUE, None>>

----------------------------------------------------------------------------
(* validators.py: TextValidator.validate_text_input *)

\* a lone surrogate code point, which str.encode('utf-8') refuses
SURROGATE == "U+DC80"

\* the number of bytes of one character in UTF-8
utf8_width(c) == IF c = EACUTE THEN 2 ELSE 1

RECURSIVE utf8_len(_)
utf8_len(text) ==
    IF text = <<>> THEN 0 ELSE utf8_width(Head(text)) + utf8_len(Tail(text))

\* len(text.encode('utf-8')): None when encode raises UnicodeEncodeError
encode_utf8_len(text) ==
    IF HasChar(text, SURROGATE) THEN None ELSE Some(utf8_len(text))

\* Python's truth value of the max_size argument (None or an int)
truthy(max_size) == IsSet(max_size) /\ max_size[1] # 0

\* TextValidator.validate_text_input
validate_text_input(text, max_size) ==
    IF text = <<>>
    THEN <<FALSE, Some(<<"Text cannot be empty">>)>>
    ELSE IF HasChar(text, NUL)
    THEN <<FALSE, Some(<<"Text contains null bytes">>)>>
    ELSE IF truthy(max_size)
    THEN LET text_bytes == encode_utf8_len(text)
         IN  IF text_bytes = None
             THEN Raised("UnicodeEncodeError")
             ELSE IF text_bytes[1] > max_size[1]
             THEN <<FALSE, Some(<<"Text size ", text_bytes[1],
                                  " bytes exceeds maximum of ", max_size[1], " bytes">>)>>
             ELSE <<TRUE, None>>
    ELSE <<TRUE, None>>

----------------------------------------------------------------------------
(* validators.py: ConversionValidator.validate_conversion_options *)
(* An option set is None or a dict; a key of the dict is None when absent, *)
(* else Some(value), a value being <<"str", s>>, <<"int", n>> or           *)
(* <<"none">>. A margin string is a character sequence.                    *)

\* a decimal digit outside ASCII (ARABIC-INDIC DIGIT TWO), which \d matches
ARABIC_TWO == "U+0662"

\* the characters \d matches
Digits == {"0", "1", "2", "3", "4", "5", "6", "7", "8", "9", ARABIC_TWO}

\* the alternatives of (mm|cm|in|px)
MarginUnits == {<<"m", "m">>, <<"c", "m">>, <<"i", "n">>, <<"p", "x">>}

valid_sizes == {"A4", "A3", "Letter", "Legal"}

\* $ of Python's re at position pos (characters consumed): the end of the
\* string, or just before a newline that ends the string
AtDollar(s, pos) ==
    \/ pos = Len(s)
    \/ pos = Len(s) - 1 /\ s[Len(s)] = LF

\* re.match(r'^\d+(mm|cm|in|px)$', margin) is not None
margin_matches(margin) ==
    \E k \in 1..Len(margin) :
        /\ \A i \in 1..k : margin[i] \in Digits
        /\ Len(margin) >= k + 2
        /\ <<margin[k + 1], margin[k + 2]>> \in MarginUnits
        /\ AtDollar(margin, k + 2)

\* bool(options) for None or a dict
options_truthy(options) ==
    /\ options # None
    /\ \E key \in DOMAIN options[1] : options[1][key] # None

\* ConversionValidator.validate_conversion_options
validate_conversion_options(options) ==
    IF ~ options_truthy(options)
    THEN <<TRUE, None>>
    ELSE LET page_size == options[1].page_size
             margin == options[1].margin
         IN  IF /\ page_size # None
                /\ ~ (page_size[1][1] = "str" /\ page_size[1][2] \in valid_sizes)
             THEN <<FALSE, Some(<<"Invalid page size: ", page_size[1]>>)>>
             ELSE IF margin # None /\ margin[1][1] # "str"
             THEN <<FALSE, Some(<<"Margin must be a string (e.g., '20mm')">>)>>
             ELSE IF margin # None /\ ~ margin_matches(margin[1][2])
             THEN <<FALSE, Some(<<"Invalid margin format: ", margin[1][2],
                                  " (use format like '20mm')">>)>>
             ELSE <<TRUE, None>>

----------------------------------------------------------------------------
(* validators.py: FileValidator.quick_format_check *)
(* A file is what the file system answers for its path: the outcome of     *)
(* Path.exists() (true, false, or an OSError such as ENAMETOOLONG that     *)
(* pathlib does not swallow), the outcome of open and read, and its bytes. *)

\* the bytes the check looks for, and a byte that is not valid UTF-8
NULB == "\\x00"
XFF == "\\xff"

PDF_SIGNATURE == <<"%", "P", "D", "F">>

\* f.read(1024)
HEADER_SIZE == 1024

read_header(content) ==
    SubSeq(content, 1, IF Len(content) < HEADER_SIZE THEN Len(content) ELSE HEADER_SIZE)

\* header.decode('utf-8') succeeds
decodes_utf8(header) == ~ HasChar(header, XFF)

\* header.decode('latin-1') succeeds: every byte is a latin-1 character
decodes_latin1(header) == TRUE

TextFormats == {"HTML", "HTM", "MARKDOWN", "MD"}

\* FileValidator.quick_format_check
quick_format_check(file, expected_format) ==
    IF file.exists = "raises"
    THEN Raised("OSError")
    ELSE IF file.exists = "false"
    THEN <<FALSE, Some(<<"File does not exist">>)>>
    ELSE IF file.io # "ok"
    THEN <<TRUE, None>>
    ELSE LET header == read_header(file.content)
         IN  IF expected_format = "PDF"
             THEN IF ~ StartsWith(header, PDF_SIGNATURE)
                  THEN <<FALSE, Some(<<"File doesn't appear to be a PDF (missing %PDF header)">>)>>
                  ELSE <<TRUE, None>>
             ELSE IF expected_format \in TextFormats
             THEN IF HasChar(header, NULB)
                  THEN <<FALSE, Some(<<"File appears to be binary, not text">>)>>
                  ELSE IF ~ decodes_utf8(header) /\ ~ decodes_latin1(header)
                  THEN <<FALSE, Some(<<"File is not readable as text">>)>>
                  ELSE <<TRUE, None>>
             ELSE <<TRUE, None>>

----------------------------------------------------------------------------
(* enums.py: ErrorCode.to_http_status *)

\* a status_map without the entry of storage_error
status_map_without_storage_error ==
    { <<"file_too_large", 413>>, <<"file_not_found", 404>>,
      <<"invalid_file_format", 400>>, <<"file_corrupted", 422>>,
      <<"task_not_found", 404>>, <<"task_expired", 410>>,
      <<"task_limit_exceeded", 429>>, <<"task_timeout", 408>>,
      <<"conversion_failed", 500>>, <<"unsupported_conversion", 400>>,
      <<"invalid_options", 400>>, <<"memory_limit", 507>>,
      <<"internal_error", 500>>, <<"service_unavailable", 503>> }

\* the status_map dictionary, as its set of (key, value) pairs
status_map ==
    { <<"file_too_large", 413>>, <<"file_not_found", 404>>,
      <<"invalid_file_format", 400>>, <<"file_corrupted", 422>>,
      <<"task_not_found", 404>>, <<"task_expired", 410>>,
      <<"task_limit_exceeded", 429>>, <<"task_timeout", 408>>,
      <<"conversion_failed", 500>>, <<"unsupported_conversion", 400>>,
      <<"invalid_options", 400>>, <<"storage_error", 507>>,
      <<"memory_limit", 507>>, <<"internal_error", 500>>,
      <<"service_unavailable", 503>> }

DEFAULT_HTTP_STATUS == 500

\* ErrorCode.to_http_status
to_http_status(code) == DictGet(status_map, code, DEFAULT_HTTP_STATUS)

----------------------------------------------------------------------------
(* models.py: TaskStats *)
(* A float that is a quotient of two counters is the pair <<n, d>> of its  *)
(* numerator and denominator; 0.0 is <<0, 1>>.                             *)

ZERO_RATE == <<0, 1>>

\* a / b, true division of two ints, b # 0
TrueDiv(a, b) == <<a, b>>

\* a cache_hit_rate without the test for a zero total
cache_hit_rate_unguarded(stats) ==
    LET total == stats.cache_hits + stats.cache_misses
    IN  TrueDiv(stats.cache_hits, total)

\* TaskStats.cache_hit_rate
cache_hit_rate(stats) ==
    LET total == stats.cache_hits + stats.cache_misses
    IN  IF total = 0 THEN ZERO_RATE ELSE TrueDiv(stats.cache_hits, total)

\* TaskStats.success_rate
success_rate(stats) ==
    LET total == stats.completed_tasks + stats.failed_tasks
    IN  IF total = 0 THEN ZERO_RATE ELSE TrueDiv(stats.completed_tasks, total)

\* TaskStats(...): each counter is a Field(ge=0)
TaskStatsValid(stats) ==
    /\ stats.cache_hits >= 0
    /\ stats.cache_misses >= 0
    /\ stats.completed_tasks >= 0
    /\ stats.failed_tasks >= 0

----------------------------------------------------------------------------
(* models.py: FileInfo construction, fields filename and size *)

\* characters str.strip() removes
Whitespace == {" ", "\t", LF, CR}

\* v.strip() != v
strip_changes(v) ==
    /\ v # <<>>
    /\ (v[1] \in Whitespace \/ v[Len(v)] \in Whitespace)

\* Field(..., min_length=1, max_length=255) of FileInfo.filename
FILEINFO_FILENAME_MAX == 255

filename_field_ok(v) == Len(v) >= 1 /\ Len(v) <= FILEINFO_FILENAME_MAX

\* FileInfo.validate_filename does not raise
FileInfo_validate_filename(v) ==
    /\ ~ (v = <<>> \/ strip_changes(v))
    /\ ~ HasChar(v, "/")
    /\ ~ HasChar(v, BACKSLASH)
    /\ ~ HasChar(v, NUL)
    /\ ~ HasSub(v, <<".", ".">>)

\* validate_file_size of models.py (the FileSize type) does not raise
FileSize_validate(v) == ~ (v <= 0) /\ ~ (v > MAX_FILE_SIZE)

\* FileInfo(filename=..., size=..., other fields valid): the fields that fail
ConstructFileInfo(filename, size) ==
    LET errors ==
            (IF filename_field_ok(filename) /\ FileInfo_validate_filename(filename)
             THEN {} ELSE {"filename"})
            \cup (IF FileSize_validate(size) THEN {} ELSE {"size"})
    IN  [ok |-> errors = {}, errors |-> errors]

----------------------------------------------------------------------------
(* core/exceptions.py and core/exceptions_py.py *)
(* An error object is the record of its attributes. A message is the tuple *)
(* of the parts its f-string joins, a details dict the sequence of its     *)
(* (key, value) items. In exceptions_py.py an error code is an ErrorCode   *)
(* member, written by its name; in exceptions.py it is the value string.   *)

\* the members of ErrorCode: (name, value)
ErrorCodeMembers ==
    { <<"FILE_TOO_LARGE", "file_too_large">>,
      <<"FILE_NOT_FOUND", "file_not_found">>,
      <<"INVALID_FILE_FORMAT", "invalid_file_format">>,
      <<"FILE_CORRUPTED", "file_corrupted">>,
      <<"TASK_NOT_FOUND", "task_not_found">>,
      <<"TASK_EXPIRED", "task_expired">>,
      <<"TASK_LIMIT_EXCEEDED", "task_limit_exceeded">>,
      <<"TASK_TIMEOUT", "task_timeout">>,
      <<"CONVERSION_FAILED", "conversion_failed">>,
      <<"UNSUPPORTED_CONVERSION", "unsupported_conversion">>,
      <<"INVALID_OPTIONS", "invalid_options">>,
      <<"STORAGE_ERROR", "storage_error">>,
      <<"MEMORY_LIMIT", "memory_limit">>,
      <<"INTERNAL_ERROR", "internal_error">>,
      <<"SERVICE_UNAVAILABLE", "service_unavailable">> }

ErrorCodeNames == { kv[1] : kv \in ErrorCodeMembers }

\* member.value
ErrorCodeValue(member) == (CHOOSE kv \in ErrorCodeMembers : kv[1] = member)[2]

\* the string a caller of exceptions.py passes for an optional member
CodeString(error_code) ==
    IF error_code = None THEN None ELSE Some(ErrorCodeValue(error_code[1]))

\* truth value of an Optional[str]: None and "" are false
StrTruthy(o) == o # None /\ o[1] # ""

\* str(uuid)
UuidStr(u) == <<"str", u>>

\* the default of the status_code parameter of DoctorException
DEFAULT_STATUS_CODE == 500

(* core/exceptions.py *)

\* DoctorException.__init__: error_code and details fall back when falsy
DoctorException(message, error_code, details, status_code) ==
    [message |-> message,
     error_code |-> IF StrTruthy(error_code) THEN error_code[1] ELSE "internal_error",
     details |-> IF details # None /\ details[1] # <<>> THEN details[1] ELSE <<>>,
     status_code |-> status_code]

\* DoctorException.to_dict
to_dict(e) ==
    [error_code |-> e.error_code, message |-> e.message,
     details |-> e.details, status_code |-> e.status_code]

ValidationError(message, field, kwargs) ==
    LET details == (IF StrTruthy(field) THEN << <<"field", field[1]>> >> ELSE <<>>) \o kwargs
    IN  DoctorException(<<message>>, Some("invalid_file_format"), Some(details), 400)

FileNotFoundError(file_id, filename) ==
    LET message == IF file_id # None THEN <<"File with ID ", file_id[1], " not found">>
                   ELSE IF StrTruthy(filename) THEN <<"File '", filename[1], "' not found">>
                   ELSE <<"File not found">>
        details == IF file_id # None THEN << <<"file_id", UuidStr(file_id[1])>> >>
                   ELSE IF StrTruthy(filename) THEN << <<"filename", filename[1]>> >>
                   ELSE <<>>
    IN  DoctorException(message, Some("file_not_found"), Some(details), 404)

InvalidOptionsError(message, option_name) ==
    LET details == IF StrTruthy(option_name) THEN << <<"option_name", option_name[1]>> >> ELSE <<>>
    IN  DoctorException(<<"Invalid conversion options: ", message>>, Some("invalid_options"), Some(details), 400)

FileTooLargeError(size, max_size) ==
    DoctorException(<<"File size ", size, " bytes exceeds maximum of ", max_size, " bytes">>, Some("file_too_large"),
        Some(<< <<"size", size>>, <<"max_size", max_size>> >>), 413)

FileCorruptedError(filename, reason) ==
    DoctorException(<<"File '", filename, "' is corrupted: ", reason>>, Some("file_corrupted"),
        Some(<< <<"filename", filename>>, <<"reason", reason>> >>), 422)

TaskNotFoundError(task_id) ==
    DoctorException(<<"Task with ID ", task_id, " not found">>, Some("task_not_found"),
        Some(<< <<"task_id", UuidStr(task_id)>> >>), 404)

TaskExpiredError(task_id) ==
    DoctorException(<<"Task with ID ", task_id, " has expired">>, Some("task_expired"),
        Some(<< <<"task_id", UuidStr(task_id)>> >>), 410)

TaskLimitExceededError(current_count, max_count) ==
    DoctorException(<<"Task limit exceeded: ", current_count, "/", max_count, " tasks active">>, Some("task_limit_exceeded"),
        Some(<< <<"current_count", current_count>>, <<"max_count", max_count>> >>), 429)

TaskTimeoutError(task_id, timeout) ==
    DoctorException(<<"Task ", task_id, " timed out after ", timeout, " seconds">>, Some("task_timeout"),
        Some(<< <<"task_id", UuidStr(task_id)>>, <<"timeout", timeout>> >>), 408)

ConversionFailedError(source_format, target_format, reason) ==
    DoctorException(<<"Conversion from ", source_format, " to ", target_format, " failed: ", reason>>, Some("conversion_failed"),
        Some(<< <<"source_format", source_format>>, <<"target_format", target_format>>, <<"reason", reason>> >>), 500)

UnsupportedConversionError(source_format, target_format) ==
    DoctorException(<<"Conversion from ", source_format, " to ", target_format, " is not supported">>, Some("unsupported_conversion"),
        Some(<< <<"source_format", source_format>>, <<"target_format", target_format>> >>), 400)

\* a StorageError classified as an internal error
StorageError_as_internal(message, operation) ==
    DoctorException(<<"Storage error during ", operation, ": ", message>>, Some("storage_error"),
        Some(<< <<"operation", operation>> >>), 500)

StorageError(message, operation) ==
    DoctorException(<<"Storage error during ", operation, ": ", message>>, Some("storage_error"),
        Some(<< <<"operation", operation>> >>), 507)

MemoryLimitError(current_usage, max_usage) ==
    DoctorException(<<"Memory limit exceeded: ", current_usage, " > ", max_usage, " bytes">>, Some("memory_limit"),
        Some(<< <<"current_usage", current_usage>>, <<"max_usage", max_usage>> >>), 507)

ServiceUnavailableError(reason) ==
    DoctorException(<<"Service unavailable: ", reason>>, Some("service_unavailable"),
        Some(<< <<"reason", reason>> >>), 503)

\* cls(**args) in exceptions.py; an error code is passed as its string
Raise(f, a) ==
    CASE f = "DoctorException" ->
            DoctorException(<<a.message>>, CodeString(a.error_code), a.details,
                IF a.status_code = None THEN DEFAULT_STATUS_CODE ELSE a.status_code[1])
      [] f = "ValidationError" -> ValidationError(a.message, a.field, a.kwargs)
      [] f = "FileNotFoundError" -> FileNotFoundError(a.file_id, a.filename)
      [] f = "InvalidOptionsError" -> InvalidOptionsError(a.message, a.option_name)
      [] f = "FileTooLargeError" ->
            FileTooLargeError(a.size, a.max_size)
      [] f = "FileCorruptedError" ->
            FileCorruptedError(a.filename, a.reason)
      [] f = "TaskNotFoundError" ->
            TaskNotFoundError(a.task_id)
      [] f = "TaskExpiredError" ->
            TaskExpiredError(a.task_id)
      [] f = "TaskLimitExceededError" ->
            TaskLimitExceededError(a.current_count, a.max_count)
      [] f = "TaskTimeoutError" ->
            TaskTimeoutError(a.task_id, a.timeout)
      [] f = "ConversionFailedError" ->
            ConversionFailedError(a.source_format, a.target_format, a.reason)
      [] f = "UnsupportedConversionError" ->
            UnsupportedConversionError(a.source_format, a.target_format)
      [] f = "StorageError" ->
            StorageError(a.message, a.operation)
      [] f = "MemoryLimitError" ->
            MemoryLimitError(a.current_usage, a.max_usage)
      [] f = "ServiceUnavailableError" ->
            ServiceUnavailableError(a.reason)

(* core/exceptions_py.py *)

\* DoctorException.__init__: error_code and details fall back when falsy
PY_DoctorException(message, error_code, details, status_code) ==
    [message |-> message,
     error_code |-> IF error_code # None THEN error_code[1] ELSE "INTERNAL_ERROR",
     details |-> IF details # None /\ details[1] # <<>> THEN details[1] ELSE <<>>,
     status_code |-> status_code]

\* a to_dict that puts the member itself into the payload
PY_to_dict_member(e) ==
    [error_code |-> e.error_code, message |-> e.message,
     details |-> e.details, status_code |-> e.status_code]

\* DoctorException.to_dict: the member's value goes into the payload
PY_to_dict(e) ==
    [error_code |-> ErrorCodeValue(e.error_code), message |-> e.message,
     details |-> e.details, status_code |-> e.status_code]

PY_ValidationError(message, field, kwargs) ==
    LET details == (IF StrTruthy(field) THEN << <<"field", field[1]>> >> ELSE <<>>) \o kwargs
    IN  PY_DoctorException(<<message>>, Some("INVALID_FILE_FORMAT"), Some(details), 400)

PY_FileNotFoundError(file_id, filename) ==
    LET message == IF file_id # None THEN <<"File with ID ", file_id[1], " not found">>
                   ELSE IF StrTruthy(filename) THEN <<"File '", filename[1], "' not found">>
                   ELSE <<"File not found">>
        details == IF file_id # None THEN << <<"file_id", UuidStr(file_id[1])>> >>
                   ELSE IF StrTruthy(filename) THEN << <<"filename", filename[1]>> >>
                   ELSE <<>>
    IN  PY_DoctorException(message, Some("FILE_NOT_FOUND"), Some(details), 404)

PY_InvalidOptionsError(message, option_name) ==
    LET details == IF StrTruthy(option_name) THEN << <<"option_name", option_name[1]>> >> ELSE <<>>
    IN  PY_DoctorException(<<"Invalid conversion options: ", message>>, Some("INVALID_OPTIONS"), Some(details), 400)

PY_FileTooLargeError(size, max_size) ==
    PY_DoctorException(<<"File size ", size, " bytes exceeds maximum of ", max_size, " bytes">>, Some("FILE_TOO_LARGE"),
        Some(<< <<"size", size>>, <<"max_size", max_size>> >>), 413)

PY_FileCorruptedError(filename, reason) ==
    PY_DoctorException(<<"File '", filename, "' is corrupted: ", reason>>, Some("FILE_CORRUPTED"),
        Some(<< <<"filename", filename>>, <<"reason", reason>> >>), 422)

PY_TaskNotFoundError(task_id) ==
    PY_DoctorException(<<"Task with ID ", task_id, " not found">>, Some("TASK_NOT_FOUND"),
        Some(<< <<"task_id", UuidStr(task_id)>> >>), 404)

PY_TaskExpiredError(task_id) ==
    PY_DoctorException(<<"Task with ID ", task_id, " has expired">>, Some("TASK_EXPIRED"),
        Some(<< <<"task_id", UuidStr(task_id)>> >>), 410)

PY_TaskLimitExceededError(current_count, max_count) ==
    PY_DoctorException(<<"Task limit exceeded: ", current_count, "/", max_count, " tasks active">>, Some("TASK_LIMIT_EXCEEDED"),
        Some(<< <<"current_count", current_count>>, <<"max_count", max_count>> >>), 429)

PY_TaskTimeoutError(task_id, timeout) ==
    PY_DoctorException(<<"Task ", task_id, " timed out after ", timeout, " seconds">>, Some("TASK_TIMEOUT"),
        Some(<< <<"task_id", UuidStr(task_id)>>, <<"timeout", timeout>> >>), 408)

PY_ConversionFailedError(source_format, target_format, reason) ==
    PY_DoctorException(<<"Conversion from ", source_format, " to ", target_format, " failed: ", reason>>, Some("CONVERSION_FAILED"),
        Some(<< <<"source_format", source_format>>, <<"target_format", target_format>>, <<"reason", reason>> >>), 500)

PY_UnsupportedConversionError(source_format, target_format) ==
    PY_DoctorException(<<"Conversion from ", source_format, " to ", target_format, " is not supported">>, Some("UNSUPPORTED_CONVERSION"),
        Some(<< <<"source_format", source_format>>, <<"target_format", target_format>> >>), 400)

PY_StorageError(message, operation) ==
    PY_DoctorException(<<"Storage error during ", operation, ": ", message>>, Some("STORAGE_ERROR"),
        Some(<< <<"operation", operation>> >>), 507)

PY_MemoryLimitError(current_usage, max_usage) ==
    PY_DoctorException(<<"Memory limit exceeded: ", current_usage, " > ", max_usage, " bytes">>, Some("MEMORY_LIMIT"),
        Some(<< <<"current_usage", current_usage>>, <<"max_usage", max_usage>> >>), 507)

PY_ServiceUnavailableError(reason) ==
    PY_DoctorException(<<"Service unavailable: ", reason>>, Some("SERVICE_UNAVAILABLE"),
        Some(<< <<"reason", reason>> >>), 503)

\* cls(**args) in exceptions_py.py; an error code is passed as the member
PY_Raise(f, a) ==
    CASE f = "DoctorException" ->
            PY_DoctorException(<<a.message>>, a.error_code, a.details,
                IF a.status_code = None THEN DEFAULT_STATUS_CODE ELSE a.status_code[1])
      [] f = "ValidationError" -> PY_ValidationError(a.message, a.field, a.kwargs)
      [] f = "FileNotFoundError" -> PY_FileNotFoundError(a.file_id, a.filename)
      [] f = "InvalidOptionsError" -> PY_InvalidOptionsError(a.message, a.option_name)
      [] f = "FileTooLargeError" ->
            PY_FileTooLargeError(a.size, a.max_size)
      [] f = "FileCorruptedError" ->
            PY_FileCorruptedError(a.filename, a.reason)
      [] f = "TaskNotFoundError" ->
            PY_TaskNotFoundError(a.task_id)
      [] f = "TaskExpiredError" ->
            PY_TaskExpiredError(a.task_id)
      [] f = "TaskLimitExceededError" ->
            PY_TaskLimitExceededError(a.current_count, a.max_count)
      [] f = "TaskTimeoutError" ->
            PY_TaskTimeoutError(a.task_id, a.timeout)
      [] f = "ConversionFailedError" ->
            PY_ConversionFailedError(a.source_format, a.target_format, a.reason)
      [] f = "UnsupportedConversionError" ->
            PY_UnsupportedConversionError(a.source_format, a.target_format)
      [] f = "StorageError" ->
            PY_StorageError(a.message, a.operation)
      [] f = "MemoryLimitError" ->
            PY_MemoryLimitError(a.current_usage, a.max_usage)
      [] f = "ServiceUnavailableError" ->
            PY_ServiceUnavailableError(a.reason)

----------------------------------------------------------------------------
(* Specification SpecPure: the policy functions and validators applied to inputs *)

Alphabet == {"m", "d", "h", "t", "M", "D", "H", "T"}

StringsUpTo(n) == UNION { [1..k -> Alphabet] : k \in 0..n }

\* the member values, cased variants of them, and strings that name no format
NamedStrings ==
    { FormatValue(f) : f \in DocumentFormat } \cup
    { <<"M","A","R","K","D","O","W","N">>, <<"M","a","r","k","d","o","w","n">>,
      <<"P","D","F">>, <<"P","d","f">>, <<"H","T","M","L">>, <<"h","t","M","l">>,
      <<"d","o","c","x">>, <<"t","x","t">>, <<" ","m","d">>, <<"m","d"," ">> }

FormatStrings == StringsUpTo(MaxStrLen) \cup NamedStrings

\* what a caller may pass as a format to the Task constructor
ConstructStrings ==
    { FormatValue(f) : f \in DocumentFormat } \cup
    { <<"P","D","F">>, <<"d","o","c","x">>, <<>> }

RetryCountInputs == {-1, 0, 3, 4}

SizeInputs ==
    {-1, 0, 1, 1024, 10000000, 10000001, 500000000, 500000001} \cup
    UNION { {m - 1, m, m + 1} : m \in {MAX_FILE_SIZE, MAX_TEXT_SIZE, MAX_URL_SIZE} }

SourceInputs == {"file", "text", "url", "api"}

\* file names: every short name over the characters the validator looks at, a
\* letter, a non-ASCII letter and a space, and names around the length limit
FilenameAlphabet ==
    DangerousChars \cup {"a", ".", "/", BACKSLASH, NUL, EACUTE, " "}

\* a name of n characters, all "a" but the last, which is c
LongName(n, c) == [i \in 1..n |-> IF i = n THEN c ELSE "a"]

FilenameInputs ==
    UNION { [1..k -> FilenameAlphabet] : k \in 0..MaxNameLen } \cup
    { LongName(n, c) :
        n \in (MAX_FILENAME_LENGTH - 1)..(MAX_FILENAME_LENGTH + 1),
        c \in {"a", EACUTE, "<", NUL} }

\* paths: every string of separators, dots and a letter
PathAlphabet == {"a", ".", "/", BACKSLASH}

PathInputs == UNION { [1..k -> PathAlphabet] : k \in 0..MaxPathLen }

\* texts to sanitize: every string of a letter, null bytes and line ends
SanitizeAlphabet == {"a", NUL, CR, LF}

SanitizeInputs == UNION { [1..k -> SanitizeAlphabet] : k \in 0..MaxTextLen }

\* URLs: the empty URL, and every parse outcome at lengths around the limit
UrlSchemes == {"http", "https", "ftp", "javascript", ""}

UrlHostnames ==
    {"example.com", "xxxxxxxx", "localhost", "127.0.0.1", "127.0.0.2", "0.0.0.0",
     "::1", "192.168.1.1", "10.0.0.1", "fc00::1", "240.0.0.1", "224.0.0.1", "8.8.8.8"}

UrlParses ==
    {None} \cup
    { Some([scheme |-> s, hostname |-> h]) :
        s \in UrlSchemes, h \in {None} \cup { Some(x) : x \in UrlHostnames } }

UrlLengths == {20, MAX_URL_LENGTH - 1, MAX_URL_LENGTH, MAX_URL_LENGTH + 1}

UrlInputs ==
    { [len |-> 0, parsed |-> Some([scheme |-> "", hostname |-> None])] } \cup
    { [len |-> n, parsed |-> p] : n \in UrlLengths, p \in UrlParses }

\* the demo's "https://" + "x" * 2040
DemoTooLongUrl ==
    [len |-> 8 + 2040, parsed |-> Some([scheme |-> "https", hostname |-> Some("xxxxxxxx")])]

\* texts of a letter, a two-byte letter, a null byte and a lone surrogate,
\* validated with no max_size and with every max_size around their sizes
TextAlphabet == {"a", EACUTE, NUL, SURROGATE}

TextInputs == UNION { [1..k -> TextAlphabet] : k \in 0..MaxStrLen }

MaxSizeInputs == {None} \cup { Some(n) : n \in 0..(MaxStrLen + 1) }

\* margins: something, digits, a unit, something
MarginDigits == UNION { [1..k -> {"2", "0", ARABIC_TWO}] : k \in 0..MaxDigits }

MarginUnitInputs ==
    MarginUnits \cup {<<>>, <<"m">>, <<"M", "M">>, <<"m", "x">>}

MarginPrefixes == {<<>>, <<LF>>, <<"-">>}

MarginSuffixes == {<<>>, <<LF>>, <<LF, LF>>, <<"x">>}

MarginStrings ==
    { p \o d \o u \o s :
        p \in MarginPrefixes, d \in MarginDigits, u \in MarginUnitInputs, s \in MarginSuffixes }

MarginInputs ==
    {None, Some(<<"int", 20>>), Some(<<"none">>)} \cup
    { Some(<<"str", m>>) : m \in MarginStrings }

PageSizeInputs ==
    {None, Some(<<"none">>), Some(<<"int", 4>>)} \cup
    { Some(<<"str", x>>) : x \in valid_sizes \cup {"X5", "a4", ""} }

ThemeInputs == {None, Some(<<"str", "github">>)}

\* no option set, dicts of a theme only, and dicts of page_size and margin:
\* every page size with the margins of the demo, every margin with a page
\* size that is absent, valid or invalid
OptionsInputs ==
    {None} \cup
    { Some([page_size |-> None, margin |-> None, theme |-> t]) : t \in ThemeInputs } \cup
    { Some([page_size |-> p, margin |-> m, theme |-> None]) :
        p \in PageSizeInputs,
        m \in {None, Some(<<"int", 20>>), Some(<<"str", <<"2", "0", "m", "m">> >>),
               Some(<<"str", <<"2", "0">> >>)} } \cup
    { Some([page_size |-> p, margin |-> m, theme |-> None]) :
        p \in {None, Some(<<"str", "A4">>), Some(<<"str", "X5">>)}, m \in MarginInputs }

\* file contents: short ones with and without the PDF signature, and ones
\* with a byte of interest just inside and just outside the first 1 KB
ContentTails == UNION { [1..k -> {"a", NULB, XFF}] : k \in 0..MaxBytesLen }

ContentHeads ==
    {<<>>, PDF_SIGNATURE, <<"%", "P", "D">>, <<"P", "D", "F", "%">>, <<"a", "%", "P", "D", "F">>}

LongContent(n, c) == [i \in 1..n |-> IF i = n THEN c ELSE "a"]

ContentInputs ==
    { h \o t : h \in ContentHeads, t \in ContentTails } \cup
    { LongContent(n, c) : n \in (HEADER_SIZE - 1)..(HEADER_SIZE + 1), c \in {"a", NULB, XFF} }

\* a path whose existence test raises, a missing file, and existing files
\* that open and read, fail to open, or fail to read
FileInputs ==
    { [exists |-> e, io |-> "open_raises", content |-> <<>>] : e \in {"raises", "false"} } \cup
    { [exists |-> "true", io |-> o, content |-> c] :
        o \in {"ok", "open_raises", "read_raises"}, c \in ContentInputs }

\* counters of a TaskStats, one below zero included
CounterInputs == (0 - 1)..MaxCount

TaskStatsInputs ==
    [cache_hits : CounterInputs, cache_misses : CounterInputs,
     completed_tasks : CounterInputs, failed_tasks : CounterInputs]

\* upload metadata: every file name with a small file, and one file name
\* with every size and source
UploadSizes == {0, 1, MAX_TEXT_SIZE, MAX_URL_SIZE, MAX_FILE_SIZE, MAX_FILE_SIZE + 1}

UploadSources == {"file", "text", "url"}

\* constructor arguments of the error classes
ExcStrings == {"", "x"}

ExcOptStrings == {None, Some(""), Some("x")}

ExcInts == {0, 1}

ExcUuids == {"uuid-1"}

ExcOptUuids == {None} \cup { Some(u) : u \in ExcUuids }

ExcKwargs == { <<>>, << <<"hint", "x">> >> }

ExcDetails == { None, Some(<<>>), Some(<< <<"k", "v">> >>) }

ExcStatusCodes == {None, Some(400), Some(500)}

ExcOptCodes == {None} \cup { Some(m) : m \in ErrorCodeNames }

RaiseCall(cls, args) == [fn |-> "raise", cls |-> cls, args |-> args]

ErrorCalls ==
    { RaiseCall("DoctorException", a) :
        a \in [message : ExcStrings, error_code : ExcOptCodes,
               details : ExcDetails, status_code : ExcStatusCodes] } \cup
    { RaiseCall("ValidationError", a) :
        a \in [message : ExcStrings, field : ExcOptStrings, kwargs : ExcKwargs] } \cup
    { RaiseCall("FileNotFoundError", a) :
        a \in [file_id : ExcOptUuids, filename : ExcOptStrings] } \cup
    { RaiseCall("InvalidOptionsError", a) :
        a \in [message : ExcStrings, option_name : ExcOptStrings] } \cup
    { RaiseCall("FileTooLargeError", a) : a \in [size : ExcInts, max_size : ExcInts] } \cup
    { RaiseCall("FileCorruptedError", a) :
        a \in [filename : ExcStrings, reason : ExcStrings] } \cup
    { RaiseCall("TaskNotFoundError", a) : a \in [task_id : ExcUuids] } \cup
    { RaiseCall("TaskExpiredError", a) : a \in [task_id : ExcUuids] } \cup
    { RaiseCall("TaskLimitExceededError", a) :
        a \in [current_count : ExcInts, max_count : ExcInts] } \cup
    { RaiseCall("TaskTimeoutError", a) : a \in [task_id : ExcUuids, timeout : ExcInts] } \cup
    { RaiseCall("ConversionFailedError", a) :
        a \in [source_format : ExcStrings, target_format : ExcStrings,
               reason : ExcStrings] } \cup
    { RaiseCall("UnsupportedConversionError", a) :
        a \in [source_format : ExcStrings, target_format : ExcStrings] } \cup
    { RaiseCall("StorageError", a) : a \in [message : ExcStrings, operation : ExcStrings] } \cup
    { RaiseCall("MemoryLimitError", a) :
        a \in [current_usage : ExcInts, max_usage : ExcInts] } \cup
    { RaiseCall("ServiceUnavailableError", a) : a \in [reason : ExcStrings] }

\* every call of a pure function on the bounded inputs
PureCalls ==
    { [fn |-> "normalize", format_str |-> x] : x \in FormatStrings } \cup
    { [fn |-> "can_convert", source |-> a, target |-> b] :
        a \in DocumentFormat, b \in DocumentFormat } \cup
    { [fn |-> "validate_conversion", source |-> a, target |-> b] :
        a \in DocumentFormat, b \in DocumentFormat } \cup
    { [fn |-> "TaskStatus", status |-> st] : st \in TaskStatus } \cup
    { [fn |-> "Task", source_format |-> a, target_format |-> b, retry_count |-> rc] :
        a \in ConstructStrings, b \in ConstructStrings, rc \in RetryCountInputs } \cup
    { [fn |-> "validate_file_size", size |-> n, source |-> src] :
        n \in SizeInputs, src \in SourceInputs } \cup
    { [fn |-> "validate_filename", filename |-> x] : x \in FilenameInputs } \cup
    { [fn |-> "sanitize_path", path |-> x] : x \in PathInputs } \cup
    { [fn |-> "sanitize_text", text |-> x] : x \in SanitizeInputs } \cup
    { [fn |-> "validate_url", url |-> x] : x \in UrlInputs } \cup
    { [fn |-> "validate_text_input", text |-> x, max_size |-> m] :
        x \in TextInputs, m \in MaxSizeInputs } \cup
    { [fn |-> "validate_conversion_options", options |-> x] : x \in OptionsInputs } \cup
    { [fn |-> "quick_format_check", file |-> x, expected_format |-> f] :
        x \in FileInputs, f \in DocumentFormat } \cup
    { [fn |-> "to_http_status", code |-> c] : c \in ErrorCode } \cup
    { [fn |-> "TaskStats", stats |-> x] : x \in TaskStatsInputs } \cup
    { [fn |-> "FileInfo", filename |-> x, size |-> 1, source |-> "file"] :
        x \in FilenameInputs } \cup
    { [fn |-> "FileInfo", filename |-> <<"a">>, size |-> n, source |-> src] :
        n \in UploadSizes, src \in UploadSources } \cup
    ErrorCalls

\* a call is chosen; no entity exists and nothing has been returned yet
InitPure ==
    /\ task = None
    /\ now = 0
    /\ call \in PureCalls
    /\ ret = None
    /\ requeues = 0

Pending(fn) == call.fn = fn /\ ret = None

CallNormalize ==
    /\ Pending("normalize")
    /\ ret' = Some(normalize(call.format_str))
    /\ UNCHANGED <<task, now, call, requeues>>

CallCanConvert ==
    /\ Pending("can_convert")
    /\ ret' = Some(can_convert(call.source, call.target))
    /\ UNCHANGED <<task, now, call, requeues>>

CallValidateConversion ==
    /\ Pending("validate_conversion")
    /\ ret' = Some(ConversionValidator_validate_conversion(call.source, call.target))
    /\ UNCHANGED <<task, now, call, requeues>>

CallTaskStatus ==
    /\ Pending("TaskStatus")
    /\ ret' = Some([is_final |-> is_final(call.status),
                    is_active |-> is_active(call.status),
                    can_cancel |-> can_cancel(call.status)])
    /\ UNCHANGED <<task, now, call, requeues>>

CallConstructTask ==
    /\ Pending("Task")
    /\ ret' = Some(ConstructTask(call.source_format, call.target_format, "created",
                                 call.retry_count, now))
    /\ UNCHANGED <<task, now, call, requeues>>

CallValidateFileSize ==
    /\ Pending("validate_file_size")
    /\ ret' = Some(validate_file_size(call.size, call.source))
    /\ UNCHANGED <<task, now, call, requeues>>

CallValidateFilename ==
    /\ Pending("validate_filename")
    /\ ret' = Some(validate_filename(call.filename))
    /\ UNCHANGED <<task, now, call, requeues>>

CallSanitizePath ==
    /\ Pending("sanitize_path")
    /\ ret' = Some(sanitize_path(call.path))
    /\ UNCHANGED <<task, now, call, requeues>>

CallSanitizeText ==
    /\ Pending("sanitize_text")
    /\ ret' = Some(sanitize_text(call.text))
    /\ UNCHANGED <<task, now, call, requeues>>

CallValidateUrl ==
    /\ Pending("validate_url")
    /\ ret' = Some(validate_url(call.url))
    /\ UNCHANGED <<task, now, call, requeues>>

CallValidateTextInput ==
    /\ Pending("validate_text_input")
    /\ ret' = Some(validate_text_input(call.text, call.max_size))
    /\ UNCHANGED <<task, now, call, requeues>>

CallValidateConversionOptions ==
    /\ Pending("validate_conversion_options")
    /\ ret' = Some(validate_conversion_options(call.options))
    /\ UNCHANGED <<task, now, call, requeues>>

CallQuickFormatCheck ==
    /\ Pending("quick_format_check")
    /\ ret' = Some(quick_format_check(call.file, call.expected_format))
    /\ UNCHANGED <<task, now, call, requeues>>

CallToHttpStatus ==
    /\ Pending("to_http_status")
    /\ ret' = Some(to_http_status(call.code))
    /\ UNCHANGED <<task, now, call, requeues>>

\* construct a TaskStats and read both rates
CallTaskStats ==
    /\ Pending("TaskStats")
    /\ ret' = Some(IF TaskStatsValid(call.stats)
                   THEN [ok |-> TRUE,
                         cache_hit_rate |-> cache_hit_rate(call.stats),
                         success_rate |-> success_rate(call.stats)]
                   ELSE [ok |-> FALSE,
                         cache_hit_rate |-> None,
                         success_rate |-> None])
    /\ UNCHANGED <<task, now, call, requeues>>

\* the validators run on the upload metadata and a FileInfo is constructed
\* from it
CallConstructFileInfo ==
    /\ Pending("FileInfo")
    /\ ret' = Some([validated |->
                        /\ validate_filename(call.filename)[1]
                        /\ validate_file_size(call.size, call.source)[1],
                    file_info |-> ConstructFileInfo(call.filename, call.size)])
    /\ UNCHANGED <<task, now, call, requeues>>

\* the error is constructed and serialized in each of the two modules
CallRaise ==
    /\ Pending("raise")
    /\ ret' = Some([exc |-> Raise(call.cls, call.args),
                    exc_py |-> PY_Raise(call.cls, call.args),
                    payload |-> to_dict(Raise(call.cls, call.args)),
                    payload_py |-> PY_to_dict(PY_Raise(call.cls, call.args))])
    /\ UNCHANGED <<task, now, call, requeues>>

NextPure ==
    \/ CallNormalize
    \/ CallCanConvert
    \/ CallValidateConversion
    \/ CallTaskStatus
    \/ CallConstructTask
    \/ CallValidateFileSize
    \/ CallValidateFilename
    \/ CallSanitizePath
    \/ CallSanitizeText
    \/ CallValidateUrl
    \/ CallValidateTextInput
    \/ CallValidateConversionOptions
    \/ CallQuickFormatCheck
    \/ CallToHttpStatus
    \/ CallTaskStats
    \/ CallConstructFileInfo
    \/ CallRaise

SpecPure == InitPure /\ [][NextPure]_vars

\* the result of the call, once it has returned
Returned(fn) == call.fn = fn /\ IsSet(ret)

----------------------------------------------------------------------------
(* Properties of the Task lifecycle, checked under Spec *)

Mutators == {"set_processing", "set_completed", "set_failed"}

\* C1: once the status of a Task is final (Success, Failed, Cancelled, Expired),
\* no call of set_processing, set_completed or set_failed changes it.
C1_FinalStatusFrozen ==
    [][(is_final(task.status) /\ call'.fn \in Mutators)
          => task'.status = task.status]_vars

\* C2: under the retry policy retry_count stays within 0..3, the task is
\* re-queued at most three times, and once retry_count is 3 it stays 3 and
\* can_retry is false from then on.
C2_RetryCap ==
    /\ [](/\ task.retry_count \in 0..3
          /\ requeues <= 3
          /\ (task.retry_count = 3 => ~ can_retry(task)))
    /\ [][task.retry_count = 3
            => (task'.retry_count = 3 /\ ~ can_retry(task'))]_vars

\* C2 happens: the task failed again after its third re-queue
C2_Witness ==
    /\ requeues = 3
    /\ task.retry_count = 3
    /\ call.fn = "set_failed"
    /\ task.status = "failed"
    /\ ~ can_retry(task)

\* C3: for every status and every retry_count in 0..3, can_retry is true
\* exactly when the status is Failed and retry_count is below 3.
C3_CanRetry ==
    can_retry(task) <=> (task.status = "failed" /\ task.retry_count \in {0, 1, 2})

\* C3 happens: a task that failed after two re-queues can still be retried
C3_Witness ==
    /\ task.status = "failed"
    /\ task.retry_count = 2
    /\ call.fn = "set_failed"
    /\ can_retry(task)

\* C8: after set_completed(output_id) the status is Success, output_file_id is
\* output_id, progress is 100, completed_at is the time of the call, and
\* processing_time is completed_at - started_at (the value of duration) when
\* started_at was recorded and unset when set_processing was never called.
C8_SetCompleted ==
    call.fn = "set_completed" =>
        /\ task.status = "success"
        /\ task.output_file_id = Some(call.output_file_id)
        /\ task.progress = 100
        /\ task.completed_at = Some(now)
        /\ IsSet(task.started_at) =>
              /\ task.processing_time = Some(task.completed_at[1] - task.started_at[1])
              /\ task.processing_time = duration(task)
        /\ ~ IsSet(task.started_at) => task.processing_time = None

\* C8 happens: a task started at time 1 was completed at time 2
C8_Witness ==
    /\ call.fn = "set_completed"
    /\ task.started_at = Some(1)
    /\ task.completed_at = Some(2)
    /\ task.processing_time = Some(1)

\* C9: after set_failed(code, details) the status is Failed, error_code is code,
\* error_details is details, completed_at is the time of the call, and the task
\* can be retried exactly when retry_count is below 3.
C9_SetFailed ==
    call.fn = "set_failed" =>
        /\ task.status = "failed"
        /\ task.error_code = Some(call.error_code)
        /\ task.error_details = Some(call.error_details)
        /\ task.completed_at = Some(now)
        /\ can_retry(task) <=> task.retry_count < 3

\* C9 happens: a timeout was forced on a task that had been started
C9_Witness ==
    /\ call.fn = "set_failed"
    /\ call.error_code = "task_timeout"
    /\ IsSet(task.started_at)
    /\ task.error_code = Some("task_timeout")
    /\ task.error_details = Some("timed out")

----------------------------------------------------------------------------
(* Properties of the policy functions and validators, checked under SpecPure *)

\* the member a format stands for: md is Markdown, htm is HTML
Canonical(f) ==
    CASE f \in {"MARKDOWN", "MD"} -> "MARKDOWN"
      [] f = "PDF"                -> "PDF"
      [] f \in {"HTML", "HTM"}    -> "HTML"

\* C4: constructing a Task succeeds only if the normalized target differs from
\* the normalized source and is listed in the source's conversion matrix entry;
\* otherwise construction fails with a validation error and there is no Task.
C4_TaskConstruction ==
    Returned("Task") =>
        LET r == ret[1]
            source == normalize(call.source_format)
            target == normalize(call.target_format)
        IN  /\ r.ok => /\ target # source
                       /\ InList(target, DictGet(CONVERSION_MATRIX, source, <<>>))
                       /\ r.task.source_format = source
                       /\ r.task.target_format = target
            /\ ~ r.ok => /\ r.error = "ValidationError"
                         /\ "task" \notin DOMAIN r

\* C4 happens: the alias pair md -> markdown is refused
C4_Witness ==
    /\ Returned("Task")
    /\ call.source_format = FormatValue("MD")
    /\ call.target_format = FormatValue("MARKDOWN")
    /\ call.retry_count = 0
    /\ ~ ret[1].ok

\* C5: over the five DocumentFormat members can_convert(f, f) is false,
\* can_convert(a, b) = can_convert(b, a), and can_convert(a, b) is true exactly
\* when a and b stand for two different members of {Markdown, PDF, HTML}.
C5_CanConvert ==
    Returned("can_convert") =>
        LET a == call.source
            b == call.target
        IN  /\ a = b => ret[1] = FALSE
            /\ ret[1] = can_convert(b, a)
            /\ ret[1] <=> Canonical(a) # Canonical(b)

\* C5 happens: two aliases of different formats convert
C5_Witness ==
    /\ Returned("can_convert")
    /\ call.source = "MD"
    /\ call.target = "HTM"
    /\ ret[1] = TRUE

\* C6: normalize returns Markdown, PDF or HTML for every string, never the
\* members md or htm; a value of a member in any casing gives the member it
\* stands for, any other string gives Markdown, and normalizing the value of
\* the result gives the result again.
C6_Normalize ==
    Returned("normalize") =>
        LET x == call.format_str
            named == { f \in DocumentFormat : FormatValue(f) = Lower(x) }
        IN  /\ ret[1] \in {"MARKDOWN", "PDF", "HTML"}
            /\ \A f \in named : ret[1] = Canonical(f)
            /\ named = {} => ret[1] = "MARKDOWN"
            /\ normalize(FormatValue(ret[1])) = ret[1]

\* C6 happens: an upper-case alias is normalized to its member
C6_Witness ==
    /\ Returned("normalize")
    /\ call.format_str = <<"H", "T", "M">>
    /\ ret[1] = "HTML"

\* C7: is_final holds exactly for Success, Failed, Cancelled, Expired; is_active
\* exactly for Processing; can_cancel exactly for Created, Queued, Waiting,
\* Processing; so every status is final or cancellable and never both.
C7_StatusPredicates ==
    Returned("TaskStatus") =>
        LET s == call.status
            r == ret[1]
        IN  /\ r.is_final <=> s \in {"success", "failed", "cancelled", "expired"}
            /\ r.is_active <=> s = "processing"
            /\ r.can_cancel <=> s \in {"created", "queued", "waiting", "processing"}
            /\ r.is_final <=> ~ r.can_cancel

\* C7 happens: Expired is final and cannot be cancelled
C7_Witness ==
    /\ Returned("TaskStatus")
    /\ call.status = "expired"
    /\ ret[1].is_final
    /\ ~ ret[1].can_cancel

\* C10: validate_file_size accepts a size exactly when 0 < size <= limit, the
\* limit being 500000000 for source file and 10485760 for source text.
C10_SizeLimits ==
    (Returned("validate_file_size") /\ call.source \in {"file", "text"}) =>
        (ret[1][1] <=>
            /\ 0 < call.size
            /\ call.size <= (IF call.source = "file" THEN 500000000 ELSE 10485760))

\* C11: validate_filename accepts a filename exactly when it is non-empty, at
\* most 255 characters long and contains none of "..", "/", "\", a null byte
\* and < > : " | ? *; non-ASCII names and names of exactly 255 characters pass.
C11_Filename ==
    Returned("validate_filename") =>
        LET f == call.filename
        IN  ret[1][1] <=>
                /\ Len(f) >= 1
                /\ Len(f) <= 255
                /\ ~ \E i \in 1..(Len(f) - 1) : f[i] = "." /\ f[i + 1] = "."
                /\ \A i \in 1..Len(f) :
                      f[i] \notin {"/", "\\", "\\0", "<", ">", ":", "\"", "|", "?", "*"}

\* C11 happens: a non-ASCII name of exactly 255 characters is accepted
C11_Witness ==
    /\ Returned("validate_filename")
    /\ Len(call.filename) = 255
    /\ call.filename[255] = EACUTE
    /\ ret[1] = <<TRUE, None>>

\* C12: sanitize_path is idempotent: sanitizing its result gives the result.
C12_SanitizePathIdempotent ==
    Returned("sanitize_path") => sanitize_path(ret[1]) = ret[1]

\* C13: the result of sanitize_path never starts with "/" and none of its
\* "/"-separated segments is "..", so validate_file_path accepts it.
C13_SanitizePathRelative ==
    Returned("sanitize_path") =>
        /\ ~ StartsWith(ret[1], <<"/">>)
        /\ \A i \in DOMAIN Split(ret[1], "/") : Split(ret[1], "/")[i] # <<".", ".">>
        /\ validate_file_path(ret[1])

\* the characters of u at the positions in 1..n that do not hold an LF
\* directly after a CR
RECURSIVE DropLFAfterCR(_, _)
DropLFAfterCR(u, n) ==
    IF n = 0
    THEN <<>>
    ELSE IF n > 1 /\ u[n] = "\n" /\ u[n - 1] = "\r"
         THEN DropLFAfterCR(u, n - 1)
         ELSE Append(DropLFAfterCR(u, n - 1), u[n])

\* C14: sanitize_text returns the text without its null bytes and with every
\* CRLF and every lone CR (of the text without null bytes) turned into one LF;
\* the result holds no null byte and no CR, and sanitizing it again changes
\* nothing.
C14_SanitizeText ==
    Returned("sanitize_text") =>
        LET u == SelectSeq(call.text, LAMBDA c : c # "\\0")
            kept == DropLFAfterCR(u, Len(u))
        IN  /\ ret[1] = [i \in DOMAIN kept |-> IF kept[i] = "\r" THEN "\n" ELSE kept[i]]
            /\ \A i \in DOMAIN ret[1] : ret[1][i] \notin {"\\0", "\r"}
            /\ sanitize_text(ret[1]) = ret[1]

\* C14 happens: a null byte between CR and LF is removed and one LF is left
C14_Witness ==
    /\ Returned("sanitize_text")
    /\ call.text = <<"a", "\r", "\\0", "\n">>
    /\ ret[1] = <<"a", "\n">>

\* C15: validate_url accepts a URL only if it is non-empty, at most 2048 long,
\* of scheme http or https, its hostname is none of localhost, 127.0.0.1,
\* 0.0.0.0, ::1 and is no private, loopback or reserved IP literal; any other
\* URL is rejected with a message, and nothing is raised.
C15_ValidateUrl ==
    Returned("validate_url") =>
        LET u == call.url
            r == ret[1]
            host == IF u.parsed = None THEN None ELSE u.parsed[1].hostname
            ip == IF host = None THEN None ELSE ip_address(host[1])
        IN  /\ Len(r) = 2
            /\ r[1] =>
                  /\ u.len > 0
                  /\ u.len <= 2048
                  /\ u.parsed # None
                  /\ u.parsed[1].scheme \in {"http", "https"}
                  /\ host # None => host[1] \notin {"localhost", "127.0.0.1", "0.0.0.0", "::1"}
                  /\ ip # None =>
                        ~ (ip[1].is_private \/ ip[1].is_loopback \/ ip[1].is_reserved)
            /\ ~ r[1] => r[2] # None

\* C15 happens: a private address is refused with a message
C15_Witness ==
    /\ Returned("validate_url")
    /\ call.url.len = 20
    /\ call.url.parsed = Some([scheme |-> "http", hostname |-> Some("192.168.1.1")])
    /\ ret[1] = <<FALSE, Some(<<"Cannot access private network addresses">>)>>

\* C16: the demo's "Too long URL", https:// followed by 2040 characters (2048
\* in all), is rejected by validate_url.
C16_DemoTooLongUrl ==
    (Returned("validate_url") /\ call.url = DemoTooLongUrl) => ~ ret[1][1]

\* C17: validate_text_input rejects empty text and text with a null byte; for
\* every max_size that is given, 0 included, it rejects a text exactly when its
\* UTF-8 byte length exceeds max_size (equal is accepted); with no max_size no
\* size check is made. Stated for texts that UTF-8 can encode.
C17_TextInput ==
    (Returned("validate_text_input") /\ ~ HasChar(call.text, SURROGATE)) =>
        LET r == ret[1]
        IN  /\ Len(r) = 2
            /\ r[1] <=>
                  /\ call.text # <<>>
                  /\ ~ HasChar(call.text, NUL)
                  /\ call.max_size # None => utf8_len(call.text) <= call.max_size[1]

\* a string of one or more decimal digits followed by exactly one of mm, cm,
\* in, px and nothing else
IsDigitsAndUnit(m) ==
    /\ Len(m) >= 3
    /\ \A i \in 1..(Len(m) - 2) : m[i] \in Digits
    /\ <<m[Len(m) - 1], m[Len(m)]>> \in {<<"m", "m">>, <<"c", "m">>, <<"i", "n">>, <<"p", "x">>}

\* C18: validate_conversion_options accepts an option set if and only if
\* page_size is absent or one of A4, A3, Letter, Legal, and margin is absent or
\* a string of digits followed by one of mm, cm, in, px and nothing else (a
\* trailing newline or a non-string margin is rejected); absent and empty
\* option sets are accepted.
C18_ConversionOptions ==
    Returned("validate_conversion_options") =>
        LET o == call.options
            r == ret[1]
        IN  IF o = None
            THEN r = <<TRUE, None>>
            ELSE r[1] <=>
                    /\ o[1].page_size # None =>
                          /\ o[1].page_size[1][1] = "str"
                          /\ o[1].page_size[1][2] \in {"A4", "A3", "Letter", "Legal"}
                    /\ o[1].margin # None =>
                          /\ o[1].margin[1][1] = "str"
                          /\ IsDigitsAndUnit(o[1].margin[1][2])

\* the calls of the six validators
ValidatorCalls ==
    {"validate_filename", "validate_file_size", "validate_url", "validate_text_input",
     "validate_conversion", "validate_conversion_options"}

\* C19: every validator returns, for every input, either (true, no message) or
\* (false, a non-empty message): valid is true exactly when the message is
\* absent, and no input makes a validator raise an exception.
C19_ValidatorResult ==
    (ret # None /\ call.fn \in ValidatorCalls) =>
        LET r == ret[1]
        IN  /\ Len(r) = 2
            /\ r[1] \in BOOLEAN
            /\ r[1] <=> r[2] = None
            /\ ~ r[1] => (r[2] # None /\ r[2][1] # <<>>)

\* C20: quick_format_check passes optimistically on any I/O failure: for every
\* expected format, whenever the file cannot be opened or read the result is
\* (true, no message); the check returns invalid only after it has read the
\* first 1 KB and found a missing %PDF signature (PDF) or a null byte in those
\* bytes (Markdown/HTML).
C20_QuickFormatCheck ==
    Returned("quick_format_check") =>
        LET f == call.file
            r == ret[1]
            unreadable == f.exists # "true" \/ f.io # "ok"
            first_kb == SubSeq(f.content, 1, IF Len(f.content) < 1024 THEN Len(f.content) ELSE 1024)
        IN  /\ Len(r) = 2
            /\ unreadable => r = <<TRUE, None>>
            /\ ~ r[1] =>
                  /\ ~ unreadable
                  /\ \/ call.expected_format = "PDF" /\ ~ StartsWith(first_kb, <<"%", "P", "D", "F">>)
                     \/ /\ call.expected_format \in {"MARKDOWN", "MD", "HTML", "HTM"}
                        /\ HasChar(first_kb, NULB)

\* C21: to_http_status is exhaustive and single-valued over the 15 ErrorCode
\* members: each code has exactly one explicit entry, the status returned is
\* that entry and one of 400, 404, 408, 410, 413, 422, 429, 500, 503, 507, and
\* the default fallback is never taken.
C21_ToHttpStatus ==
    /\ Cardinality(ErrorCode) = 15
    /\ Returned("to_http_status") =>
          /\ call.code \in ErrorCode
          /\ Cardinality({ kv \in status_map : kv[1] = call.code }) = 1
          /\ \E kv \in status_map : kv[1] = call.code /\ kv[2] = ret[1]
          /\ ret[1] \in {400, 404, 408, 410, 413, 422, 429, 500, 503, 507}

\* C21 happens: a code whose status is not the default has been mapped
C21_Witness ==
    /\ Returned("to_http_status")
    /\ call.code = "storage_error"
    /\ ret[1] = 507

\* the quotient q = <<n, d>> is the defined value part / total, within 0..1
IsRatio(q, part, total) ==
    /\ Len(q) = 2
    /\ q[2] > 0
    /\ q[1] * total = part * q[2]
    /\ 0 <= q[1] /\ q[1] <= q[2]

\* C22: for all non-negative counters, cache_hit_rate is 0 when cache_hits +
\* cache_misses is 0 and otherwise cache_hits / (cache_hits + cache_misses);
\* success_rate is 0 when completed_tasks + failed_tasks is 0 and otherwise
\* completed_tasks / (completed_tasks + failed_tasks); both lie between 0 and
\* 1 and computing them never fails.
C22_Rates ==
    (Returned("TaskStats") /\ TaskStatsValid(call.stats)) =>
        LET s == call.stats
            r == ret[1]
            cache_total == s.cache_hits + s.cache_misses
            task_total == s.completed_tasks + s.failed_tasks
        IN  /\ r.ok
            /\ IF cache_total = 0
               THEN r.cache_hit_rate = <<0, 1>>
               ELSE IsRatio(r.cache_hit_rate, s.cache_hits, cache_total)
            /\ IF task_total = 0
               THEN r.success_rate = <<0, 1>>
               ELSE IsRatio(r.success_rate, s.completed_tasks, task_total)
            /\ r.cache_hit_rate[2] > 0
            /\ r.success_rate[2] > 0

\* C22 happens: the rates of a TaskStats with no cache traffic and one
\* success out of three finished tasks have been read
C22_Witness ==
    /\ Returned("TaskStats")
    /\ call.stats = [cache_hits |-> 0, cache_misses |-> 0,
                     completed_tasks |-> 1, failed_tasks |-> 2]
    /\ ret[1].cache_hit_rate = <<0, 1>>
    /\ ret[1].success_rate = <<1, 3>>

\* C23: across any sequence of set_processing, set_completed and set_failed
\* calls on a Task, progress never decreases, set_processing and set_failed
\* leave progress unchanged, and progress becomes 100 only through
\* set_completed.
C23_Progress ==
    [][/\ task'.progress >= task.progress
       /\ call'.fn \in {"set_processing", "set_failed"} => task'.progress = task.progress
       /\ (task'.progress = 100 /\ task.progress # 100) => call'.fn = "set_completed"]_vars

\* C23 happens: a completed task has been set to processing again and its
\* progress is still 100
C23_Witness ==
    /\ call.fn = "set_processing"
    /\ task.status = "processing"
    /\ task.progress = 100

\* C24: every filename accepted by FileValidator.validate_filename satisfies
\* the FileInfo filename invariant, and every size accepted by
\* validate_file_size for source file, text or url is accepted by the FileInfo
\* size check, so a FileInfo can always be constructed from validated upload
\* metadata.
C24_ValidateThenConstruct ==
    (Returned("FileInfo") /\ ret[1].validated) => ret[1].file_info.ok

\* C25: in every state reachable from a newly created Task, error_code and
\* error_details are set only if status is Failed: a task that is Processing
\* again after a failure, or Success, carries no error of an earlier attempt.
C25_ErrorOnlyWhenFailed ==
    (IsSet(task.error_code) \/ IsSet(task.error_details)) => task.status = "failed"

\* C26: in every state reachable from a newly created Task under a
\* non-decreasing clock, whenever started_at and completed_at are both set,
\* completed_at is not earlier than started_at, so duration is never negative.
C26_DurationNonNegative ==
    (IsSet(task.started_at) /\ IsSet(task.completed_at)) =>
        /\ task.completed_at[1] >= task.started_at[1]
        /\ duration(task)[1] >= 0

\* C27: in every state reachable from a newly created Task, status Success
\* implies progress is 100, output_file_id is set and completed_at is set.
C27_SuccessComplete ==
    task.status = "success" =>
        /\ task.progress = 100
        /\ IsSet(task.output_file_id)
        /\ IsSet(task.completed_at)

\* C27 happens: a newly created task has been processed and completed
C27_Witness ==
    /\ call.fn = "set_completed"
    /\ task.status = "success"
    /\ IsSet(task.started_at)

\* the fields the mutators do not assign
FrameFields(t) ==
    <<t.id, t.input_file_id, t.source_format, t.target_format, t.options,
      t.priority, t.source, t.retry_count, t.created_at>>

\* C28: set_processing, set_completed and set_failed leave id, input_file_id,
\* source_format, target_format, options, priority, source, retry_count and
\* created_at unchanged; hence target_format differs from source_format and is
\* reachable in the conversion matrix in every state reachable by mutator calls.
C28_Frame ==
    /\ [][call'.fn \in Mutators => FrameFields(task') = FrameFields(task)]_vars
    /\ [](/\ task.target_format # task.source_format
          /\ \E row \in CONVERSION_MATRIX :
                row[1] = task.source_format /\ InList(task.target_format, row[2]))

\* C28 happens: all three mutators have been called on a task and its
\* formats are still a convertible pair
C28_Witness ==
    /\ call.fn = "set_failed"
    /\ IsSet(task.started_at)
    /\ IsSet(task.output_file_id)
    /\ task.source_format = "MARKDOWN"
    /\ task.target_format = "PDF"

\* C29: every specialized error constructor produces an error whose
\* status_code equals to_http_status of its own error_code, and whose
\* error_code is a member of the closed ErrorCode set, in both error modules.
C29_ErrorStatus ==
    (Returned("raise") /\ call.cls # "DoctorException") =>
        LET e == ret[1].exc
            e_py == ret[1].exc_py
        IN  /\ e.error_code \in ErrorCode
            /\ e.status_code = to_http_status(e.error_code)
            /\ e_py.error_code \in ErrorCodeNames
            /\ e_py.status_code = to_http_status(ErrorCodeValue(e_py.error_code))

\* C29 happens: a storage error has been constructed with status 507
C29_Witness ==
    /\ Returned("raise")
    /\ call.cls = "StorageError"
    /\ ret[1].exc.error_code = "storage_error"
    /\ ret[1].exc.status_code = 507

\* C30: for every error class and every constructor argument, to_dict of
\* exceptions.py and of exceptions_py.py return the same {error_code, message,
\* details, status_code} record; error_code defaults to internal_error and
\* status_code to 500 when the base error is built without them, and file_id
\* takes precedence over filename in the file-not-found details.
C30_ModulesEquivalent ==
    Returned("raise") =>
        LET p == ret[1].payload
            p_py == ret[1].payload_py
            a == call.args
        IN  /\ p = p_py
            /\ DOMAIN p = {"error_code", "message", "details", "status_code"}
            /\ p.error_code \in ErrorCode
            /\ call.cls = "DoctorException" =>
                  /\ a.error_code = None => p.error_code = "internal_error"
                  /\ a.status_code = None => p.status_code = 500
            /\ (call.cls = "FileNotFoundError" /\ a.file_id # None) =>
                  /\ Len(p.details) = 1
                  /\ p.details[1][1] = "file_id"

\* C30 happens: a file-not-found error given both a file id and a filename
\* has been serialized by both modules
C30_Witness ==
    /\ Returned("raise")
    /\ call.cls = "FileNotFoundError"
    /\ call.args.file_id = Some("uuid-1")
    /\ call.args.filename = Some("x")
    /\ ret[1].payload_py.error_code = "file_not_found"
    /\ ret[1].payload.details = << <<"file_id", <<"str", "uuid-1">> >> >>

====
